---- MODULE Spec2Model ----
(***************************************************************************)
(* Target derivation of the SV-calling workflow                            *)
(* (snakemake/helper_functions.py): get_callers, make_output, make_all.    *)
(*                                                                         *)
(* Python strings are sequences of one-character strings, so that          *)
(* os.path.join, str.split, str.startswith and the csv reader are modelled *)
(* by what they do to the characters.                                      *)
(***************************************************************************)
EXTENDS Integers, Sequences, FiniteSets, TLC

\* ------------------------------------------------------------------ bounds
MaxLines == 2       \* lines of the manifest after its first line
MaxEnabled == 2     \* length of config["enable_callers"]

\* --------------------------------------------------------- string literals
Sep == <<"/">>                                   \* os.sep
Comma == <<",">>                                 \* csv delimiter
Hash == <<"#">>
DashDash == <<"-", "-">>
Survivor == <<"s", "u", "r", "v", "i", "v", "o", "r">>
AllVcf == <<"a", "l", "l", ".", "v", "c", "f">>
VcfExt == <<".", "v", "c", "f">>                 \* config["file_exts"]["vcf"]
FPATH == <<"P", "A", "T", "H">>
FSAMPLE1 == <<"S", "A", "M", "P", "L", "E", "1">>
FSAMPLE2 == <<"S", "A", "M", "P", "L", "E", "2">>
manta == <<"m", "a", "n", "t", "a">>
delly == <<"d", "e", "l", "l", "y">>
gridss == <<"g", "r", "i", "d", "s", "s">>

\* Values that are not strings: their single element is not a character.
None == <<"None">>
PyFalse == <<"False">>
IsStr(x) == x /= None /\ x /= PyFalse

\* ------------------------------------------------------- string functions
StartsWith(s, p) == Len(s) >= Len(p) /\ SubSeq(s, 1, Len(p)) = p

EndsWith(s, p) == Len(s) >= Len(p) /\ SubSeq(s, Len(s) - Len(p) + 1, Len(s)) = p

RECURSIVE Concat(_)
Concat(ss) == IF ss = <<>> THEN <<>> ELSE Head(ss) \o Concat(Tail(ss))

\* sep.join(parts), sep one string
RECURSIVE JoinWith(_, _)
JoinWith(sep, parts) ==
    IF parts = <<>> THEN <<>>
    ELSE IF Len(parts) = 1 THEN parts[1]
    ELSE parts[1] \o sep \o JoinWith(sep, Tail(parts))

\* s.split(c), c one character: always at least one part
RECURSIVE SplitAcc(_, _, _)
SplitAcc(s, c, cur) ==
    IF s = <<>> THEN <<cur>>
    ELSE IF Head(s) = c THEN <<cur>> \o SplitAcc(Tail(s), c, <<>>)
    ELSE SplitAcc(Tail(s), c, Append(cur, Head(s)))

Split(s, c) == SplitAcc(s, c, <<>>)

\* posixpath.join(a, b): an absolute b discards a
JoinPath2(a, b) ==
    IF StartsWith(b, Sep) THEN b
    ELSE IF a = <<>> \/ EndsWith(a, Sep) THEN a \o b
    ELSE a \o Sep \o b

RECURSIVE JoinPath(_, _)
JoinPath(a, ps) == IF ps = <<>> THEN a ELSE JoinPath(JoinPath2(a, Head(ps)), Tail(ps))

\* xs[:-n]
DropLast(xs, n) == IF Len(xs) <= n THEN <<>> ELSE SubSeq(xs, 1, Len(xs) - n)

BoundedSeq(S, n) == UNION {[1..k -> S] : k \in 0..n}

\* ------------------------------------------------------------------ inputs
\* config = load_configfile('analysis.yaml'): the keys the derivation reads
manta_out == <<"m", "a", "n", "t", "a", "_", "o", "u", "t">>
sv_delly == <<"s", "v", "/", "d", "e", "l", "l", "y">>

CallersCfg == (manta :> [outdir |-> manta_out]) @@ (delly :> [outdir |-> sv_delly])

CallerNames == {manta, delly, gridss}

Modes == {"s", "p", "x"}

Configs ==
    [mode : Modes,
     enable_callers : BoundedSeq(CallerNames, MaxEnabled),
     callers : {CallersCfg}]

\* text lines of the manifest file, without their newline
Line(cells) == JoinWith(Comma, cells)

cR == <<"r">>
cA == <<"A">>
cB == <<"B">>

HeaderLines == {Line(<<FPATH, FSAMPLE1, FSAMPLE2>>), Line(<<FPATH, FSAMPLE1>>)}

CommentLine == Hash \o Line(<<cR, cA, cB>>)

BodyLines ==
    {Line(<<cR, cA, cB>>), Line(<<cR, cB, cA>>), Line(<<<<>>, cA, cB>>),
     Line(<<cR, <<>>, cB>>), Line(<<cR, cA, <<>>>>), Line(<<cR, cA>>),
     Line(<<cR>>), CommentLine, <<>>}

\* ------------------------------------------------------------- get_callers
\* variant: an unsupported name is skipped instead of raising
RECURSIVE get_callers_skip(_, _, _)
get_callers_skip(cfg, todo, callers) ==
    IF todo = <<>> THEN [kind |-> "ok", callers |-> callers, name |-> <<>>]
    ELSE IF Head(todo) \notin DOMAIN cfg.callers
         THEN get_callers_skip(cfg, Tail(todo), callers)
         ELSE get_callers_skip(cfg, Tail(todo), Append(callers, Head(todo)))

RECURSIVE get_callers_loop(_, _, _)
get_callers_loop(cfg, todo, callers) ==
    IF todo = <<>> THEN [kind |-> "ok", callers |-> callers, name |-> <<>>]
    ELSE IF Head(todo) \notin DOMAIN cfg.callers
         THEN [kind |-> "AssertionError", callers |-> <<>>, name |-> Head(todo)]
         ELSE get_callers_loop(cfg, Tail(todo), Append(callers, Head(todo)))

get_callers(cfg) == get_callers_loop(cfg, cfg.enable_callers, <<>>)

get_outdir(cfg, caller) == cfg.callers[caller].outdir

get_filext_vcf == VcfExt

\* ------------------------------------------------------------- make_output
is_ok(s) == IF s = None \/ s = <<>> THEN PyFalse ELSE s

\* variant: only a line that is exactly "#" is taken for a comment
IsCommentExact(line) == line = Hash

\* the generator's filter: line.startswith("#")
IsComment(line) == StartsWith(line, Hash)

\* csv.reader on one line of text, no quoting: a blank line is the row []
CsvRow(line) == IF line = <<>> THEN <<>> ELSE Split(line, ",")

\* DictReader.__next__: dict(zip(fieldnames, row)), restval None, restkey None
DictRow(names, row) ==
    [keys |-> names,
     vals |-> [k \in 1..Len(names) |-> IF k <= Len(row) THEN row[k] ELSE None],
     rest |-> IF Len(row) > Len(names) THEN SubSeq(row, Len(names) + 1, Len(row))
              ELSE <<>>]

HasKey(r, key) == \E k \in 1..Len(r.keys) : r.keys[k] = key

Get(r, key) ==
    LET ks == {k \in 1..Len(r.keys) : r.keys[k] = key}
    IN  r.vals[CHOOSE k \in ks : \A m \in ks : m <= k]

\* the try block of the loop body: the path or the exception raised
RowPath(r, mode) ==
    IF ~HasKey(r, FPATH) \/ ~HasKey(r, FSAMPLE1) THEN [kind |-> "KeyError", path |-> <<>>]
    ELSE LET a == Get(r, FPATH)
             b == is_ok(Get(r, FSAMPLE1))
         IN  IF ~IsStr(a) \/ ~IsStr(b) THEN [kind |-> "TypeError", path |-> <<>>]
             ELSE IF mode = "p"
             THEN IF ~HasKey(r, FSAMPLE2) THEN [kind |-> "KeyError", path |-> <<>>]
                  ELSE LET c == is_ok(Get(r, FSAMPLE2))
                       IN  IF ~IsStr(c) THEN [kind |-> "TypeError", path |-> <<>>]
                           ELSE [kind |-> "ok", path |-> JoinPath(a, <<b>>) \o DashDash \o c]
             ELSE [kind |-> "ok", path |-> JoinPath(a, <<b>>)]

\* variant: the append dedented out of the inner loop, one target per row
CallerTargetsLastOnly(cfg, path, callers) ==
    IF callers = <<>> THEN <<>>
    ELSE LET c == callers[Len(callers)]
         IN  <<JoinPath(path, <<get_outdir(cfg, c), Survivor, c \o get_filext_vcf>>)>>

\* variant: the callers walked in reverse
CallerTargetsReversed(cfg, path, callers) ==
    [j \in 1..Len(callers) |->
        LET c == callers[Len(callers) + 1 - j]
        IN  JoinPath(path, <<get_outdir(cfg, c), Survivor, c \o get_filext_vcf>>)]

\* variant: the first caller used in place of the loop variable
CallerTargetsFirstOnly(cfg, path, callers) ==
    [j \in 1..Len(callers) |->
        JoinPath(path, <<get_outdir(cfg, callers[1]), Survivor, callers[1] \o get_filext_vcf>>)]

\* the inner loop: one target per caller, in the callers' order
CallerTargets(cfg, path, callers) ==
    [j \in 1..Len(callers) |->
        JoinPath(path, <<get_outdir(cfg, callers[j]), Survivor, callers[j] \o get_filext_vcf>>)]

\* ---------------------------------------------------------------- make_all
MergedPath(f) == JoinPath(JoinWith(Sep, DropLast(Split(f, "/"), 3)), <<AllVcf>>)

\* ------------------------------------------------------------------- state
VARIABLES
    config,       \* the loaded configuration
    pc,           \* position of the run
    fp,           \* the manifest file object: "unopened", "open", "closed"
    lines,        \* the lines fp has yielded so far
    fieldnames,   \* DictReader's fieldnames, None until the header is read
    r,            \* the row dict of the current loop iteration
    i,            \* enumerate's counter
    outfiles,     \* make_output's list
    err,          \* what was reported or raised
    merged,       \* make_all's set
    callers       \* result of a direct get_callers() call

vars == <<config, pc, fp, lines, fieldnames, r, i, outfiles, err, merged, callers>>

NoErr == [kind |-> "none", index |-> 0, values |-> <<>>, rest |-> <<>>, name |-> <<>>]
NoRow == [keys |-> <<>>, vals |-> <<>>, rest |-> <<>>]
NoCall == [kind |-> "none", callers |-> <<>>, name |-> <<>>]

Init ==
    /\ config \in Configs
    /\ pc = "start"
    /\ fp = "unopened"
    /\ lines = <<>>
    /\ fieldnames = None
    /\ r = NoRow
    /\ i = 0
    /\ outfiles = <<>>
    /\ err = NoErr
    /\ merged = {}
    /\ callers = NoCall

\* a direct call of get_callers()
CallGetCallers ==
    /\ pc = "start"
    /\ callers' = get_callers(config)
    /\ pc' = "gc_done"
    /\ UNCHANGED <<config, fp, lines, fieldnames, r, i, outfiles, err, merged>>

\* with open(config["samples"], "r") as fp
Open ==
    /\ pc = "start"
    /\ fp' = "open"
    /\ pc' = "mode"
    /\ UNCHANGED <<config, lines, fieldnames, r, i, outfiles, err, merged, callers>>

\* the mode check: os._exit(1) ends the process inside the with block
CheckMode ==
    /\ pc = "mode"
    /\ IF config.mode \notin {"s", "p"}
       THEN /\ pc' = "exited"
            /\ err' = [NoErr EXCEPT !.kind = "mode"]
       ELSE /\ pc' = "iter"
            /\ err' = err
    /\ UNCHANGED <<config, fp, lines, fieldnames, r, i, outfiles, merged, callers>>

\* next(reader): fp yields one more line; comment lines are filtered out
\* before the csv reader, the first line that is left is the header, blank
\* rows are skipped, any other row becomes the dict of the next iteration
ReadLine ==
    /\ pc = "iter"
    /\ Len(lines) <= MaxLines
    /\ \E line \in (IF fieldnames = None THEN HeaderLines \cup {CommentLine} ELSE BodyLines) :
        /\ lines' = Append(lines, line)
        /\ IF IsComment(line) THEN UNCHANGED <<fieldnames, r, pc>>
           ELSE IF fieldnames = None
           THEN fieldnames' = CsvRow(line) /\ UNCHANGED <<r, pc>>
           ELSE IF CsvRow(line) = <<>> THEN UNCHANGED <<fieldnames, r, pc>>
           ELSE /\ r' = DictRow(fieldnames, CsvRow(line))
                /\ pc' = "row"
                /\ UNCHANGED fieldnames
    /\ UNCHANGED <<config, fp, i, outfiles, err, merged, callers>>

\* variant: a row with a missing value is reported and skipped, the loop
\* goes on
RowSkipsBadRow ==
    /\ pc = "row"
    /\ LET p == RowPath(r, config.mode)
           cs == get_callers(config)
       IN  IF p.kind = "TypeError"
           THEN /\ err' = [NoErr EXCEPT !.kind = "row", !.index = i + 1,
                                        !.values = r.vals, !.rest = r.rest]
                /\ i' = i + 1
                /\ pc' = "iter"
                /\ UNCHANGED <<fp, outfiles>>
           ELSE IF p.kind = "KeyError"
           THEN /\ err' = [NoErr EXCEPT !.kind = "KeyError"]
                /\ pc' = "raised"
                /\ fp' = "closed"
                /\ UNCHANGED <<i, outfiles>>
           ELSE IF cs.kind = "AssertionError"
           THEN /\ err' = [NoErr EXCEPT !.kind = "AssertionError", !.name = cs.name]
                /\ pc' = "raised"
                /\ fp' = "closed"
                /\ UNCHANGED <<i, outfiles>>
           ELSE /\ outfiles' = outfiles \o CallerTargets(config, p.path, cs.callers)
                /\ i' = i + 1
                /\ pc' = "iter"
                /\ UNCHANGED <<fp, err>>
    /\ UNCHANGED <<config, lines, fieldnames, r, merged, callers>>

\* the body of the for loop, for the row r
Row ==
    /\ pc = "row"
    /\ LET p == RowPath(r, config.mode)
           cs == get_callers(config)
       IN  IF p.kind = "TypeError"
           THEN /\ err' = [NoErr EXCEPT !.kind = "row", !.index = i + 1,
                                        !.values = r.vals, !.rest = r.rest]
                /\ pc' = "exited"
                /\ UNCHANGED <<fp, i, outfiles>>
           ELSE IF p.kind = "KeyError"
           THEN /\ err' = [NoErr EXCEPT !.kind = "KeyError"]
                /\ pc' = "raised"
                /\ fp' = "closed"
                /\ UNCHANGED <<i, outfiles>>
           ELSE IF cs.kind = "AssertionError"
           THEN /\ err' = [NoErr EXCEPT !.kind = "AssertionError", !.name = cs.name]
                /\ pc' = "raised"
                /\ fp' = "closed"
                /\ UNCHANGED <<i, outfiles>>
           ELSE /\ outfiles' = outfiles \o CallerTargets(config, p.path, cs.callers)
                /\ i' = i + 1
                /\ pc' = "iter"
                /\ UNCHANGED <<fp, err>>
    /\ UNCHANGED <<config, lines, fieldnames, r, merged, callers>>

\* fp is exhausted: the loop ends, the list is returned, the with block closes fp
Return ==
    /\ pc = "iter"
    /\ fp' = "closed"
    /\ pc' = "done"
    /\ UNCHANGED <<config, lines, fieldnames, r, i, outfiles, err, merged, callers>>

\* make_all over the list make_output returned
MakeAll ==
    /\ pc = "done"
    /\ merged' = {MergedPath(outfiles[k]) : k \in 1..Len(outfiles)}
    /\ pc' = "all_done"
    /\ UNCHANGED <<config, fp, lines, fieldnames, r, i, outfiles, err, callers>>

Next == CallGetCallers \/ Open \/ CheckMode \/ ReadLine \/ Row \/ Return \/ MakeAll

Spec == Init /\ [][Next]_vars
\* ------------------------------------------------- the manifest, as text
\* What the claims say about the manifest is stated over the text of the
\* lines fp has yielded, not over the reader's state.
FirstCharIsHash(l) == Len(l) > 0 /\ l[1] = "#"

IsDataLine(l) == l /= <<>> /\ ~FirstCharIsHash(l)

\* the header is the first line that is no comment; 0 when there is none yet
HeaderPos ==
    LET ks == {k \in 1..Len(lines) : ~FirstCharIsHash(lines[k])}
    IN  IF ks = {} THEN 0 ELSE CHOOSE k \in ks : \A m \in ks : k <= m

Header == LET hp == HeaderPos IN IF hp = 0 THEN <<>> ELSE Split(lines[hp], ",")

\* the column of a field under header h, 0 when h does not name it
ColIn(h, name) ==
    LET ks == {k \in 1..Len(h) : h[k] = name}
    IN  IF ks = {} THEN 0 ELSE CHOOSE k \in ks : \A m \in ks : k <= m

\* the value of a field in the row of cells c; None when the header has no
\* such column or the row is too short
CellIn(h, c, name) ==
    LET k == ColIn(h, name)
    IN  IF k = 0 \/ k > Len(c) THEN None ELSE c[k]

MissingIn(h, c, name) ==
    LET v == CellIn(h, c, name) IN v = None \/ v = <<>>

Required == IF config.mode = "p" THEN {FPATH, FSAMPLE1, FSAMPLE2} ELSE {FPATH, FSAMPLE1}

\* the data rows read so far, in manifest order
DataLines ==
    LET hp == HeaderPos
    IN  IF hp = 0 THEN <<>> ELSE SelectSeq(SubSeq(lines, hp + 1, Len(lines)), IsDataLine)

HasComment == \E k \in 1..Len(lines) : FirstCharIsHash(lines[k])

Cell(l, name) == LET h == Header c == Split(l, ",") IN CellIn(h, c, name)

\* a field required by the active mode is missing or empty
LacksRequired(l) ==
    LET h == Header
        c == Split(l, ",")
    IN  \E f \in Required : MissingIn(h, c, f)

\* PATH/SAMPLE1 and PATH/SAMPLE1--SAMPLE2, of a row that lacks nothing
SingleSegment(l) ==
    LET h == Header
        c == Split(l, ",")
    IN  Concat(<<CellIn(h, c, FPATH), Sep, CellIn(h, c, FSAMPLE1)>>)

PairedSegment(l) ==
    LET h == Header
        c == Split(l, ",")
    IN  Concat(<<CellIn(h, c, FPATH), Sep, CellIn(h, c, FSAMPLE1), DashDash,
                 CellIn(h, c, FSAMPLE2)>>)

Segment(l) == IF config.mode = "p" THEN PairedSegment(l) ELSE SingleSegment(l)

K == Len(config.enable_callers)

N == Len(DataLines)

AllSupported == \A k \in 1..K : config.enable_callers[k] \in DOMAIN config.callers

ValidMode == config.mode \in {"s", "p"}

Returned == pc \in {"done", "all_done"}

Ended == pc \in {"done", "all_done", "exited", "raised"}

RowErrorReported == pc = "exited" /\ err.kind = "row"

\* the last line read is a data row and the loop body has run for it
LastRowHandled ==
    /\ pc /= "row"
    /\ HeaderPos > 0
    /\ Len(lines) > HeaderPos
    /\ IsDataLine(lines[Len(lines)])

LastLine == lines[Len(lines)]

\* ------------------------------------------------------------------ claims
NoRowLacksRequired == LET d == DataLines IN \A k \in 1..Len(d) : ~LacksRequired(d[k])

\* C1: with every enabled caller supported, make_output returns exactly N*K
\* targets for a manifest of N data rows and K enabled callers, and when no
\* data row lacks a required field (and the mode is valid) it does return.
C1_Cardinality ==
    AllSupported =>
        /\ Returned => Len(outfiles) = N * K
        /\ (Ended /\ ValidMode /\ NoRowLacksRequired) => Returned

C1_Witness ==
    /\ pc = "done"
    /\ AllSupported
    /\ NoRowLacksRequired
    /\ N = 2
    /\ K = 2
    /\ Len(outfiles) = 4

\* the target of a segment and a caller, written out:
\* <segment>/<outdir>/survivor/<name><vcf extension>
TargetText(seg, c) ==
    Concat(<<seg, Sep, config.callers[c].outdir, Sep, Survivor, Sep, c, VcfExt>>)

\* C2: the returned list is manifest-major, caller-minor: position a*K+j
\* (0-based) holds the target of data row a and enabled caller j, whose
\* segment is PATH/SAMPLE1 in Single mode (SAMPLE2 ignored) and
\* PATH/SAMPLE1--SAMPLE2 in Paired mode, which is not the Single-mode one.
C2_OrderAndShape ==
    pc = "done" =>
        LET d == DataLines
        IN  \A a \in 0..(Len(d) - 1) : \A j \in 0..(K - 1) :
                ~LacksRequired(d[a + 1]) =>
                    LET c == config.enable_callers[j + 1]
                        pos == a * K + j + 1
                    IN  /\ pos \in DOMAIN outfiles
                        /\ config.mode = "s" =>
                               outfiles[pos] = TargetText(SingleSegment(d[a + 1]), c)
                        /\ config.mode = "p" =>
                               /\ outfiles[pos] = TargetText(PairedSegment(d[a + 1]), c)
                               /\ outfiles[pos] /= TargetText(SingleSegment(d[a + 1]), c)

C2_Witness ==
    /\ pc = "done"
    /\ config.mode = "p"
    /\ config.enable_callers = <<manta, delly>>
    /\ DataLines = <<Line(<<cR, cA, cB>>), Line(<<cR, cB, cA>>)>>
    /\ Len(outfiles) = 4
    /\ outfiles[4] = TargetText(PairedSegment(Line(<<cR, cB, cA>>)), delly)

\* the values of a data row as the reader keeps them: one per header column,
\* None where the row is too short
RawValues(l) ==
    LET h == Header
        c == Split(l, ",")
    IN  [k \in 1..Len(h) |-> IF k <= Len(c) THEN c[k] ELSE None]

\* C3 (as claimed): whatever the callers' output directories, make_all
\* returns exactly the paths <segment>/all.vcf of the data rows.
C3_MergedPerSegment ==
    (pc = "all_done" /\ K >= 1 /\ NoRowLacksRequired) =>
        LET d == DataLines
        IN  merged = {Concat(<<Segment(d[k]), Sep, AllVcf>>) : k \in 1..Len(d)}

\* C4 (as claimed): a data row is rejected, with the missing-value report
\* carrying its 1-based data-row index and raw values, if and only if a
\* field required by the active mode is missing or empty.
C4_RejectedIffLacksRequired ==
    LastRowHandled =>
        ((/\ RowErrorReported
          /\ err.index = N
          /\ err.values = RawValues(LastLine)) <=> LacksRequired(LastLine))

\* C5 (as claimed): with an unsupported name in the enabled list a run of
\* make_output ends in the unsupported-caller error, raised before any line
\* of the manifest is read.
C5_UnsupportedCallerFirst ==
    (Ended /\ ValidMode /\ ~AllSupported) =>
        (pc = "raised" /\ err.kind = "AssertionError" /\ lines = <<>>)

\* C10 (as claimed): on every exit path of make_output the manifest file has
\* been closed by the with block.
C10_FileClosedOnExit == Ended => fp = "closed"

\* make_output's own validation of a row (the header naming the fields it
\* reads): PATH absent from the row, SAMPLE1 missing or empty, or in Paired
\* mode SAMPLE2 missing or empty
FailsValidation(l) ==
    LET h == Header
        c == Split(l, ",")
    IN  /\ ColIn(h, FPATH) > 0
        /\ ColIn(h, FSAMPLE1) > 0
        /\ \/ CellIn(h, c, FPATH) = None
           \/ MissingIn(h, c, FSAMPLE1)
           \/ config.mode = "p" /\ ColIn(h, FSAMPLE2) > 0 /\ MissingIn(h, c, FSAMPLE2)

C7_CommentsTransparent ==
    /\ [][(lines' /= lines /\ FirstCharIsHash(lines'[Len(lines')])) =>
             UNCHANGED <<pc, fieldnames, r, i, outfiles, err, merged>>]_vars
    /\ [](RowErrorReported => (err.index = N /\ err.values = RawValues(LastLine)))
    /\ [](pc \in {"iter", "done"} => i = N)

C7_Witness ==
    /\ RowErrorReported
    /\ Len(lines) = 3
    /\ HeaderPos = 1
    /\ FirstCharIsHash(lines[2])
    /\ IsDataLine(lines[3])
    /\ err.index = 1

PosRow(p) == ((p - 1) \div K) + 1
PosCaller(p) == config.enable_callers[((p - 1) % K) + 1]

\* the segment make_output builds for an accepted row
BuiltSegment(l) ==
    LET h == Header
        c == Split(l, ",")
        ps == JoinPath2(CellIn(h, c, FPATH), CellIn(h, c, FSAMPLE1))
    IN  IF config.mode = "p" THEN ps \o DashDash \o CellIn(h, c, FSAMPLE2) ELSE ps

\* C8 (as claimed): the returned list holds the same target at two positions
\* only if the manifest has two data rows with identical field values.
C8_DuplicatesOnlyFromDuplicateRows ==
    pc = "done" =>
        LET d == DataLines
        IN  \A p, q \in DOMAIN outfiles :
                (p < q /\ outfiles[p] = outfiles[q]) =>
                    \E a, b \in 1..Len(d) : a /= b /\ d[a] = d[b]

\* C8 (amended): the returned list holds the same target at two positions
\* only if the two positions are of the same caller name and the rows of the
\* two positions give the same sample-path segment.
C8_DuplicatesOnlyFromSameCallerAndSegment ==
    pc = "done" =>
        LET d == DataLines
        IN  \A p, q \in DOMAIN outfiles :
                (p < q /\ outfiles[p] = outfiles[q]) =>
                    /\ PosCaller(p) = PosCaller(q)
                    /\ BuiltSegment(d[PosRow(p)]) = BuiltSegment(d[PosRow(q)])

C8_Witness ==
    /\ pc = "done"
    /\ config.mode = "s"
    /\ K = 1
    /\ N = 2
    /\ DataLines[1] /= DataLines[2]
    /\ outfiles[1] = outfiles[2]

\* C9: get_callers is all-or-error: the enabled list itself, in order, when
\* every name is supported; otherwise the unsupported-caller error for the
\* first unsupported name, and no list.
C9_AllOrError ==
    pc = "gc_done" =>
        IF AllSupported
        THEN callers.kind = "ok" /\ callers.callers = config.enable_callers
        ELSE /\ callers.kind = "AssertionError"
             /\ callers.callers = <<>>
             /\ \E k \in 1..K :
                    /\ callers.name = config.enable_callers[k]
                    /\ callers.name \notin DOMAIN config.callers
                    /\ \A m \in 1..(k - 1) : config.enable_callers[m] \in DOMAIN config.callers

C9_Witness ==
    /\ pc = "gc_done"
    /\ config.enable_callers = <<manta, gridss>>
    /\ callers.kind = "AssertionError"
    /\ callers.callers = <<>>
====
